---- MODULE Spec2Model ----
(***************************************************************************)
(* Hotspot pipeline: aggregate tables -> merge_hotspot_tables ->          *)
(* compute_priority_scores / cluster_hotspots, and the orchestration of   *)
(* main().  Tables are sequences of rows (records keyed by column name).  *)
(* Floating-point cells are modelled as exact extended rationals: a       *)
(* record [nan, num, den] with den >= 0, where den = 0 is +/-infinity and *)
(* nan = TRUE is NaN (also the value of a missing / unparseable cell).    *)
(***************************************************************************)
EXTENDS Integers, Sequences, FiniteSets, TLC

VARIABLES
    res_csv,          \* hotspots_residential_geometry.csv (rows)
    nonres_csv,       \* hotspots_non_residential_geometry.csv (rows)
    combined_csv,     \* hotspots_combined_geometry.csv (rows)
    stage,            \* which functions have run on these tables
    top_k_global,     \* argument of compute_priority_scores
    top_k_per_country,\* argument of compute_priority_scores
    priority_df,      \* the frame compute_priority_scores returns (df_sorted)
    priority_global_csv,      \* hotspots_priority_global.csv (rows)
    priority_by_country_csv,  \* hotspots_priority_by_country.csv (rows)
    k_min,            \* argument of cluster_hotspots
    k_max,            \* argument of cluster_hotspots
    k_selected,       \* cluster count chosen by _select_k_silhouette
    silhouette_selected,      \* score returned by _select_k_silhouette
    scores,           \* silhouette_score of each k the selection loop tried
    clustered_csv,    \* hotspots_clustered.csv (rows)
    cluster_summary_csv,      \* hotspots_cluster_summary.csv (rows)
    disk,             \* main(): the files that exist
    written,          \* main(): the files this run has written
    pc,               \* main(): the call about to be made
    cursor,           \* main(): position in files / targets
    skipped,          \* main(): the stages that printed a skip notice
    error,            \* main(): the exception that ended the run, if any
    failed,           \* main(): the call that raised it
    content,          \* main(): what each file on disk holds
    run,              \* main(): 1 in the first run, 2 in a second run
    start,            \* main(): content when this run began
    parquet_name,     \* name of the Parquet file handed to a DuckDB stage
    parquet_cols,     \* its columns (DESCRIBE SELECT * FROM read_parquet)
    parquet_rows,     \* its records
    agg_df,           \* the frame the stage returned, if it returned
    queries,          \* number of aggregation queries the stage executed
    raised,           \* the exception the stage raised, if any
    calls,            \* number of calls of the stage on this file
    label_args,       \* arguments of a call of _label_cluster
    label_result      \* the label the call returned

tableVars == <<res_csv, nonres_csv, combined_csv>>

scoreVars == <<top_k_global, top_k_per_country, priority_df,
               priority_global_csv, priority_by_country_csv>>

clusterVars == <<k_min, k_max, k_selected, silhouette_selected, scores,
                 clustered_csv, cluster_summary_csv>>

mainVars == <<disk, written, pc, cursor, skipped, error, failed, content, run, start>>

aggVars == <<parquet_name, parquet_cols, parquet_rows, agg_df, queries, raised, calls>>

labelVars == <<label_args, label_result>>

vars == <<tableVars, stage, scoreVars, clusterVars, mainVars, aggVars, labelVars>>

----------------------------------------------------------------------------
(* Bounds of the model *)

\* largest emission total held by an aggregate row
MaxQty == 2

----------------------------------------------------------------------------
(* Extended rational arithmetic standing for float64 *)

Abs(n) == IF n < 0 THEN 0 - n ELSE n

Sign(n) == IF n < 0 THEN 0 - 1 ELSE IF n > 0 THEN 1 ELSE 0

RECURSIVE Gcd(_, _)
Gcd(a, b) == IF b = 0 THEN a ELSE Gcd(b, a % b)

NaN == [nan |-> TRUE, num |-> 0, den |-> 1]

\* n/d with d >= 0, in lowest terms; n/0 is an infinity, 0/0 is NaN
Flt(n, d) ==
    IF d = 0
    THEN IF n = 0 THEN NaN ELSE [nan |-> FALSE, num |-> Sign(n), den |-> 0]
    ELSE LET g == Gcd(Abs(n), d)
         IN  [nan |-> FALSE, num |-> n \div g, den |-> d \div g]

Num(n) == Flt(n, 1)

FAdd(x, y) ==
    IF x.nan \/ y.nan THEN NaN
    ELSE IF x.den = 0 /\ y.den = 0
         THEN IF x.num = y.num THEN x ELSE NaN
         ELSE Flt(x.num * y.den + y.num * x.den, x.den * y.den)

FNeg(x) == IF x.nan THEN NaN ELSE [x EXCEPT !.num = 0 - x.num]

FSub(x, y) == FAdd(x, FNeg(y))

FMul(x, y) == IF x.nan \/ y.nan THEN NaN ELSE Flt(x.num * y.num, x.den * y.den)

\* IEEE division: x/0 is an infinity, 0/0 and inf/inf are NaN
FDiv(x, y) ==
    IF x.nan \/ y.nan THEN NaN
    ELSE LET n == x.num * y.den
             d == x.den * y.num
         IN  IF d < 0 THEN Flt(0 - n, 0 - d) ELSE Flt(n, d)

\* comparisons with NaN are false
FLess(x, y) ==
    /\ ~x.nan /\ ~y.nan /\ x # y
    /\ LET g == IF x.den = 0 /\ y.den = 0 THEN 1 ELSE Gcd(x.den, y.den)
       IN  x.num * (y.den \div g) < y.num * (x.den \div g)

FGreater(x, y) == FLess(y, x)

FLeq(x, y) == ~x.nan /\ ~y.nan /\ (x = y \/ FLess(x, y))

\* Series.fillna(v)
FillNa(x, v) == IF x.nan THEN v ELSE x

\* Series.where(cond, other)
Where(x, cond, other) == IF cond THEN x ELSE other

----------------------------------------------------------------------------
(* Aggregate tables (the CSVs written from aggregate_hotspots_by_geometry) *)

\* (iso3_country, geometry_ref) pairs of the merge specification
MergeKeys == {<<"AAA", "g1">>, <<"AAA", "g2">>}

\* cells of the latest_end_time column: empty, or a timestamp string
EndTimeCells == {"", "2023-12-31 00:00:00", "2024-12-31 00:00:00"}

AggRow(k, q, n, t) ==
    [iso3_country |-> k[1], geometry_ref |-> k[2], total_emissions |-> q,
     n_sources |-> n, latest_end_time |-> t]

\* every table with at most one row per key of K, totals in Q, counts in N;
\* the rows of one table carry the same latest_end_time t
AggTables(K, Q, N, t) ==
    UNION { { {AggRow(k, f[k][1], f[k][2], t) : k \in ks} : f \in [ks -> Q \X N] }
            : ks \in SUBSET K }

KeyOf(r) == <<r.iso3_country, r.geometry_ref>>

\* ORDER BY total_emissions DESC NULLS LAST
AggOrdered(s) ==
    \A i \in 1..Len(s) : \A j \in 1..Len(s) :
        i < j => \/ s[j].total_emissions.nan
                 \/ (~s[i].total_emissions.nan
                     /\ FLeq(s[j].total_emissions, s[i].total_emissions))

\* the sequences listing each row of the set T once
SeqsOf(T) ==
    { s \in [1..Cardinality(T) -> T] : \A i, j \in 1..Cardinality(T) : i # j => s[i] # s[j] }

AggCsv(T) == CHOOSE s \in SeqsOf(T) : AggOrdered(s)

----------------------------------------------------------------------------
(* merge_hotspot_tables *)

\* the columns of the combined hotspot table, in the order written
CombinedCols ==
    {"iso3_country", "geometry_ref", "res_emissions", "nonres_emissions",
     "combined_emissions", "res_share", "nonres_share", "res_n_sources",
     "nonres_n_sources", "combined_n_sources", "latest_end_time"}

RowsOf(s) == {s[i] : i \in 1..Len(s)}

\* one joined row; a side without the key leaves its cells missing (NaN / "")
JoinRow(k, hasRes, r, hasNon, n) ==
    [iso3_country |-> k[1], geometry_ref |-> k[2],
     res_emissions |-> IF hasRes THEN r.total_emissions ELSE NaN,
     res_n_sources |-> IF hasRes THEN r.n_sources ELSE NaN,
     res_latest_end_time |-> IF hasRes THEN r.latest_end_time ELSE "",
     nonres_emissions |-> IF hasNon THEN n.total_emissions ELSE NaN,
     nonres_n_sources |-> IF hasNon THEN n.n_sources ELSE NaN,
     nonres_latest_end_time |-> IF hasNon THEN n.latest_end_time ELSE ""]

\* how="left": mutant of the join, keeping only the residential keys
LeftJoin(res, nonres) ==
    LET R == RowsOf(res)
        N == RowsOf(nonres)
    IN  { JoinRow(KeyOf(p[1]), TRUE, p[1], TRUE, p[2]) :
            p \in {q \in R \X N : KeyOf(q[1]) = KeyOf(q[2])} }
        \cup { JoinRow(KeyOf(r), TRUE, r, FALSE, r) :
            r \in {x \in R : \A n \in N : KeyOf(n) # KeyOf(x)} }

\* pd.merge(res_df, nonres_df, on=[iso3_country, geometry_ref], how="outer")
OuterJoin(res, nonres) ==
    LET R == RowsOf(res)
        N == RowsOf(nonres)
    IN  { JoinRow(KeyOf(p[1]), TRUE, p[1], TRUE, p[2]) :
            p \in {q \in R \X N : KeyOf(q[1]) = KeyOf(q[2])} }
        \cup { JoinRow(KeyOf(r), TRUE, r, FALSE, r) :
            r \in {x \in R : \A n \in N : KeyOf(n) # KeyOf(x)} }
        \cup { JoinRow(KeyOf(n), FALSE, n, TRUE, n) :
            n \in {x \in N : \A r \in R : KeyOf(r) # KeyOf(x)} }

\* mutant of CoerceZero: the coercion without fillna(0)
CoerceKeep(x) == x

\* pd.to_numeric(col, errors="coerce").fillna(0)
CoerceZero(x) == FillNa(x, Num(0))

\* mutant of Share: the division without the zero guard
ShareUnguarded(part, combined) == FDiv(part, combined)

\* part.where(combined > 0, 0) / combined.where(combined > 0, 1)
Share(part, combined) ==
    FDiv(Where(part, FGreater(combined, Num(0)), Num(0)),
         Where(combined, FGreater(combined, Num(0)), Num(1)))

\* pd.to_datetime(cell, errors="coerce"): 0 is NaT
ToDatetime(c) ==
    CASE c = "2023-12-31 00:00:00" -> 1
      [] c = "2024-12-31 00:00:00" -> 2
      [] OTHER -> 0

\* max(axis=1) over the two parsed columns; NaT is skipped
LatestDt(a, b) == IF ToDatetime(a) >= ToDatetime(b) THEN ToDatetime(a) ELSE ToDatetime(b)

\* dt.strftime("%Y-%m-%dT%H:%M:%S") then fillna("")
Strftime(t) ==
    CASE t = 1 -> "2023-12-31T00:00:00"
      [] t = 2 -> "2024-12-31T00:00:00"
      [] OTHER -> ""

\* the derived columns of one joined row, restricted to ordered_cols
CombinedRow(m) ==
    LET re == CoerceZero(m.res_emissions)
        ne == CoerceZero(m.nonres_emissions)
        rn == CoerceZero(m.res_n_sources)
        nn == CoerceZero(m.nonres_n_sources)
        ce == FAdd(re, ne)
    IN  [iso3_country |-> m.iso3_country, geometry_ref |-> m.geometry_ref,
         res_emissions |-> re, nonres_emissions |-> ne, combined_emissions |-> ce,
         res_share |-> Share(re, ce), nonres_share |-> Share(ne, ce),
         res_n_sources |-> rn, nonres_n_sources |-> nn,
         combined_n_sources |-> FAdd(rn, nn),
         latest_end_time |-> Strftime(LatestDt(m.res_latest_end_time,
                                               m.nonres_latest_end_time))]

\* sort_values(col, ascending=False): the order among equal values is not fixed
SortedDesc(T, col) ==
    { s \in SeqsOf(T) :
        \A i \in 1..Len(s) : \A j \in 1..Len(s) : i < j => FLeq(s[j][col], s[i][col]) }

\* the tables merge_hotspot_tables may return for the two CSVs
MergeTables(res, nonres) ==
    SortedDesc({CombinedRow(m) : m \in OuterJoin(res, nonres)}, "combined_emissions")

MergeHotspotTables ==
    /\ stage = "aggregated"
    /\ combined_csv' \in MergeTables(res_csv, nonres_csv)
    /\ stage' = "merged"
    /\ UNCHANGED <<res_csv, nonres_csv, scoreVars, clusterVars, mainVars, aggVars, labelVars>>

----------------------------------------------------------------------------
(* Specification of the merge alone: any pair of aggregate tables over two  *)
(* keys, totals missing, negative, zero or positive                        *)

\* before compute_priority_scores has run
ScoreInit ==
    /\ top_k_global = 0
    /\ top_k_per_country = 0
    /\ priority_df = <<>>
    /\ priority_global_csv = <<>>
    /\ priority_by_country_csv = <<>>

\* before cluster_hotspots has run
ClusterInit ==
    /\ k_min = 0
    /\ k_max = 0
    /\ k_selected = 0
    /\ silhouette_selected = NaN
    /\ scores = <<>>
    /\ clustered_csv = <<>>
    /\ cluster_summary_csv = <<>>

\* no DuckDB stage has been called
AggIdle ==
    /\ parquet_name = ""
    /\ parquet_cols = {}
    /\ parquet_rows = <<>>
    /\ agg_df = [returned |-> FALSE, rows |-> <<>>]
    /\ queries = 0
    /\ raised = [exc |-> "none", file |-> "", msg |-> "", missing |-> {}]
    /\ calls = 0

\* _label_cluster has not been called on its own
LabelIdle ==
    /\ label_args = <<>>
    /\ label_result = ""

\* main() is not running
MainIdle ==
    /\ disk = {}
    /\ written = {}
    /\ pc = "idle"
    /\ cursor = 0
    /\ skipped = {}
    /\ error = "none"
    /\ failed = "none"
    /\ content = <<>>
    /\ run = 0
    /\ start = <<>>

MergeQty == {NaN, Num(0 - 1)} \cup {Num(q) : q \in 0..MaxQty}

MergeCounts == {Num(1), Num(2)}

\* a residential table of one row: (USA, geom-1), 100 from 2 sources
ExampleRes ==
    <<AggRow(<<"USA", "geom-1">>, Num(100), Num(2), "2023-12-31 00:00:00")>>

\* a non-residential table of one row: (USA, geom-1), 300 from 1 source
ExampleNonres ==
    <<AggRow(<<"USA", "geom-1">>, Num(300), Num(1), "2024-12-31 00:00:00")>>

InitMerge ==
    /\ \/ /\ \E t \in EndTimeCells :
                res_csv \in {AggCsv(T) : T \in AggTables(MergeKeys, MergeQty, MergeCounts, t)}
          /\ \E t \in EndTimeCells :
                nonres_csv \in {AggCsv(T) : T \in AggTables(MergeKeys, MergeQty, MergeCounts, t)}
       \/ /\ res_csv = ExampleRes
          /\ nonres_csv = ExampleNonres
    /\ combined_csv = <<>>
    /\ stage = "aggregated"
    /\ ScoreInit
    /\ ClusterInit
    /\ AggIdle
    /\ LabelIdle
    /\ MainIdle

NextMerge == MergeHotspotTables

SpecMerge == InitMerge /\ [][NextMerge]_vars

----------------------------------------------------------------------------
(* Claims about merge_hotspot_tables (checked under SpecMerge) *)

KeysIn(s) == {KeyOf(s[i]) : i \in 1..Len(s)}

\* C1: in every row of the merged table, res_share + nonres_share = 1 when
\* combined_emissions > 0, and both shares are 0 otherwise (the division by a
\* zero total never happens, so no share is NaN or infinite).
C1_SharesSumToOne ==
    \A i \in 1..Len(combined_csv) :
        LET r == combined_csv[i]
        IN  IF FGreater(r.combined_emissions, Num(0))
            THEN FAdd(r.res_share, r.nonres_share) = Num(1)
            ELSE r.res_share = Num(0) /\ r.nonres_share = Num(0)

\* a merged table holding a row split between the two datasets and a row
\* whose combined emissions are not positive
C1_Witness ==
    /\ stage = "merged"
    /\ \E i \in 1..Len(combined_csv) :
         /\ FGreater(combined_csv[i].combined_emissions, Num(0))
         /\ FGreater(combined_csv[i].res_share, Num(0))
         /\ FGreater(combined_csv[i].nonres_share, Num(0))
    /\ \E j \in 1..Len(combined_csv) :
         ~FGreater(combined_csv[j].combined_emissions, Num(0))

\* C2: the merged table has exactly one row for every key of either input
\* and no other key; a key of the residential table alone has
\* nonres_emissions = 0 and nonres_share = 0; a key of the non-residential
\* table alone has res_emissions = 0, res_share = 0 and combined_emissions
\* equal to its non-residential total.
C2_FullOuterJoin ==
    stage = "merged" =>
        /\ KeysIn(combined_csv) = KeysIn(res_csv) \cup KeysIn(nonres_csv)
        /\ \A i, j \in 1..Len(combined_csv) :
               i # j => KeyOf(combined_csv[i]) # KeyOf(combined_csv[j])
        /\ \A i \in 1..Len(combined_csv) :
               LET r == combined_csv[i]
               IN  /\ KeyOf(r) \notin KeysIn(nonres_csv) =>
                          r.nonres_emissions = Num(0) /\ r.nonres_share = Num(0)
                   /\ KeyOf(r) \notin KeysIn(res_csv) =>
                          /\ r.res_emissions = Num(0)
                          /\ r.res_share = Num(0)
                          /\ \A n \in RowsOf(nonres_csv) :
                                 (KeyOf(n) = KeyOf(r) /\ ~n.total_emissions.nan)
                                     => r.combined_emissions = n.total_emissions

\* a merge of tables where one key is residential only and another is
\* non-residential only with a positive total
C2_Witness ==
    /\ stage = "merged"
    /\ \E k \in KeysIn(res_csv) : k \notin KeysIn(nonres_csv)
    /\ \E n \in RowsOf(nonres_csv) :
         /\ KeyOf(n) \notin KeysIn(res_csv)
         /\ FGreater(n.total_emissions, Num(0))

\* the cell of column col that table s holds for key k, 0 when the key is
\* absent or the cell is not a number
SideValue(s, k, col) ==
    IF \E i \in 1..Len(s) : KeyOf(s[i]) = k /\ ~s[i][col].nan
    THEN LET i == CHOOSE j \in 1..Len(s) : KeyOf(s[j]) = k IN s[i][col]
    ELSE Num(0)

\* C11: in every row of the merged table combined_emissions = res_emissions +
\* nonres_emissions and combined_n_sources = res_n_sources + nonres_n_sources,
\* each side being the input's value for the key, or 0 when the key is absent
\* from that input or the cell is not a number (no cell is null); the tables
\* (USA, geom-1, 100, 2) and (USA, geom-1, 300, 1) merge into the single row
\* with combined_emissions 400, res_share 0.25, nonres_share 0.75 and
\* combined_n_sources 3.
C11_CombinedSums ==
    stage = "merged" =>
        /\ \A i \in 1..Len(combined_csv) :
               LET r == combined_csv[i]
                   k == KeyOf(r)
               IN  /\ r.res_emissions = SideValue(res_csv, k, "total_emissions")
                   /\ r.nonres_emissions = SideValue(nonres_csv, k, "total_emissions")
                   /\ r.res_n_sources = SideValue(res_csv, k, "n_sources")
                   /\ r.nonres_n_sources = SideValue(nonres_csv, k, "n_sources")
                   /\ r.combined_emissions = FAdd(r.res_emissions, r.nonres_emissions)
                   /\ r.combined_n_sources = FAdd(r.res_n_sources, r.nonres_n_sources)
                   /\ ~r.combined_emissions.nan /\ ~r.combined_n_sources.nan
        /\ (res_csv = ExampleRes /\ nonres_csv = ExampleNonres) =>
               /\ Len(combined_csv) = 1
               /\ combined_csv[1].combined_emissions = Num(400)
               /\ combined_csv[1].res_share = Flt(25, 100)
               /\ combined_csv[1].nonres_share = Flt(75, 100)
               /\ combined_csv[1].combined_n_sources = Num(3)

\* the merge of the two one-row example tables
C11_Witness ==
    /\ stage = "merged"
    /\ res_csv = ExampleRes
    /\ nonres_csv = ExampleNonres
    /\ Len(combined_csv) = 1
    /\ combined_csv[1].combined_emissions = Num(400)

\* a merge where one side lacks a key and the other side's total for a key
\* is not a number
C11_CoercedReached ==
    /\ stage = "merged"
    /\ \E k \in KeysIn(res_csv) : k \notin KeysIn(nonres_csv)
    /\ \E i \in 1..Len(nonres_csv) : nonres_csv[i].total_emissions.nan

----------------------------------------------------------------------------
(* compute_priority_scores *)

\* default of top_k_global, and the value main() passes
TopKGlobal == 500

\* default of top_k_per_country, and the value main() passes
TopKPerCountry == 50

\* 100 * ln(1 + e), truncated, for e = 0, 1, 2, ...
Log1pCenti == <<0, 69, 109, 138, 160, 179, 194, 207, 219, 230, 239, 248, 256>>

\* np.log1p on a whole-number cell: NaN below -1, -inf at -1; the only
\* fractional cell of the tables is TinyQty, and log1p(x) is x to first order
Log1p(x) ==
    IF x.nan THEN NaN
    ELSE IF x.den = 0 THEN (IF x.num > 0 THEN x ELSE NaN)
    ELSE IF x.den > 1 THEN x
    ELSE IF x.num < 0 - 1 THEN NaN
    ELSE IF x.num = 0 - 1 THEN Flt(0 - 1, 0)
    ELSE Flt(Log1pCenti[x.num + 1], 100)

\* Series.clip(lower=lo, upper=hi); NaN stays NaN
Clip(x, lo, hi) == IF x.nan THEN x ELSE IF FLess(x, lo) THEN lo ELSE IF FGreater(x, hi) THEN hi ELSE x

\* mutant of ResMultiplier: the share term subtracted
ResMultiplierMinus(share) == FSub(Flt(7, 10), FMul(Flt(6, 10), share))

\* R = 0.7 + 0.6 * res_share
ResMultiplier(share) == FAdd(Flt(7, 10), FMul(Flt(6, 10), share))

\* smallest / largest value of a non-empty finite set of floats without NaN
FMin(S) == CHOOSE x \in S : \A y \in S : FLeq(x, y)

FMax(S) == CHOOSE x \in S : \A y \in S : FLeq(y, x)

\* Series.replace(0, np.nan)
ReplaceZeroNaN(x) == IF x = Num(0) THEN NaN ELSE x

\* mutant of CountryNorm: the quotient without fillna(0)
CountryNormNoFill(e, lo, hi) == FDiv(FSub(e, lo), ReplaceZeroNaN(FSub(hi, lo)))

\* ((E_country - min_e) / denom).fillna(0)
CountryNorm(e, lo, hi) ==
    FillNa(FDiv(FSub(e, lo), ReplaceZeroNaN(FSub(hi, lo))), Num(0))

\* mutant of DenseRank: rank(method="min"), counting rows instead of values
MinRank(x, col) ==
    IF x.nan THEN NaN
    ELSE Num(1 + Cardinality({i \in 1..Len(col) : FGreater(col[i], x)}))

\* rank(method="dense", ascending=False) of value x within column col
DenseRank(x, col) ==
    IF x.nan THEN NaN
    ELSE Num(1 + Cardinality({col[i] : i \in {j \in 1..Len(col) : FGreater(col[j], x)}}))

\* the frame after the numeric coercion and the clip of res_share
ScoreInput(csv) ==
    [i \in 1..Len(csv) |->
        [csv[i] EXCEPT !.combined_emissions = CoerceZero(@),
                       !.res_emissions = CoerceZero(@),
                       !.nonres_emissions = CoerceZero(@),
                       !.res_share = Clip(CoerceZero(@), Num(0), Num(1))]]

\* the positions of df holding the same iso3_country as position i
GroupOf(df, i) == {j \in 1..Len(df) : df[j].iso3_country = df[i].iso3_country}

SubColumn(df, idx, col) ==
    LET RECURSIVE Pick(_)
        Pick(n) == IF n = 0 THEN <<>>
                   ELSE IF n \in idx THEN Append(Pick(n - 1), df[n][col])
                   ELSE Pick(n - 1)
    IN  Pick(Len(df))

\* df with priority_score and priority_score_country
WithScores(df) ==
    [i \in 1..Len(df) |->
        LET r == df[i]
            R == ResMultiplier(r.res_share)
            E == Log1p(r.combined_emissions)
            grp == {df[j].combined_emissions : j \in GroupOf(df, i)}
            min_e == Log1p(FMin(grp))
            max_e == Log1p(FMax(grp))
        IN  [iso3_country |-> r.iso3_country, geometry_ref |-> r.geometry_ref,
             combined_emissions |-> r.combined_emissions,
             res_emissions |-> r.res_emissions,
             nonres_emissions |-> r.nonres_emissions,
             res_share |-> r.res_share,
             priority_score |-> FMul(E, R),
             priority_score_country |-> FMul(CountryNorm(E, min_e, max_e), R),
             latest_end_time |-> r.latest_end_time]]

\* the ranks before astype(int); a NaN score ranks NaN
RankGlobal(df, i) == DenseRank(df[i].priority_score, SubColumn(df, 1..Len(df), "priority_score"))

RankCountry(df, i) ==
    DenseRank(df[i].priority_score_country,
              SubColumn(df, GroupOf(df, i), "priority_score_country"))

\* astype(int) raises on a NaN rank
RankCastFails(df) ==
    \E i \in 1..Len(df) : RankGlobal(df, i).nan \/ RankCountry(df, i).nan

\* the columns kept by df[ordered_cols]
PriorityCols ==
    {"iso3_country", "geometry_ref", "combined_emissions", "res_emissions",
     "nonres_emissions", "res_share", "priority_score", "priority_rank_global",
     "priority_score_country", "priority_rank_country", "latest_end_time"}

\* mutant of PriorityRow: latest_end_time left out of ordered_cols
PriorityRowNoTime(r, rankGlobal, rankCountry) ==
    [iso3_country |-> r.iso3_country, geometry_ref |-> r.geometry_ref,
     combined_emissions |-> r.combined_emissions, res_emissions |-> r.res_emissions,
     nonres_emissions |-> r.nonres_emissions, res_share |-> r.res_share,
     priority_score |-> r.priority_score, priority_rank_global |-> rankGlobal,
     priority_score_country |-> r.priority_score_country,
     priority_rank_country |-> rankCountry]

\* one row of df[ordered_cols]
PriorityRow(r, rankGlobal, rankCountry) ==
    [iso3_country |-> r.iso3_country, geometry_ref |-> r.geometry_ref,
     combined_emissions |-> r.combined_emissions, res_emissions |-> r.res_emissions,
     nonres_emissions |-> r.nonres_emissions, res_share |-> r.res_share,
     priority_score |-> r.priority_score, priority_rank_global |-> rankGlobal,
     priority_score_country |-> r.priority_score_country,
     priority_rank_country |-> rankCountry,
     latest_end_time |-> r.latest_end_time]

\* the set of rows of the scored frame
PriorityRows(csv) ==
    LET df == WithScores(ScoreInput(csv))
    IN  {PriorityRow(df[i], RankGlobal(df, i).num, RankCountry(df, i).num) : i \in 1..Len(df)}

\* mutant of HeadK: DataFrame.tail(k)
TailK(s, k) == IF k >= Len(s) THEN s ELSE SubSeq(s, Len(s) - k + 1, Len(s))

\* DataFrame.head(k)
HeadK(s, k) == IF k >= Len(s) THEN s ELSE SubSeq(s, 1, k)

\* position of a country code in string order
CountryOrd(c) == CASE c = "AAA" -> 1 [] c = "BBB" -> 2 [] OTHER -> 3

\* sort_values([iso3_country, priority_score_country], ascending=[True, False])
SortedByCountry(T) ==
    { s \in SeqsOf(T) :
        \A i \in 1..Len(s) : \A j \in 1..Len(s) :
            i < j => \/ CountryOrd(s[i].iso3_country) < CountryOrd(s[j].iso3_country)
                     \/ /\ s[i].iso3_country = s[j].iso3_country
                        /\ FLeq(s[j].priority_score_country, s[i].priority_score_country) }

\* groupby(iso3_country).head(k): the first k rows of each country, in frame order
GroupHead(s, k) ==
    LET keep == {i \in 1..Len(s) :
                    Cardinality({j \in 1..i : s[j].iso3_country = s[i].iso3_country}) <= k}
        RECURSIVE Pick(_)
        Pick(n) == IF n = 0 THEN <<>>
                   ELSE IF n \in keep THEN Append(Pick(n - 1), s[n])
                   ELSE Pick(n - 1)
    IN  Pick(Len(s))

ComputePriorityScores ==
    /\ stage = "merged"
    /\ \E kg \in {1, 2, TopKGlobal} : \E kc \in {1, TopKPerCountry} :
         /\ top_k_global' = kg
         /\ top_k_per_country' = kc
         /\ IF RankCastFails(WithScores(ScoreInput(combined_csv)))
            THEN /\ stage' = "score_error"
                 /\ UNCHANGED <<priority_df, priority_global_csv, priority_by_country_csv>>
            ELSE /\ stage' = "scored"
                 /\ priority_df' \in SortedDesc(PriorityRows(combined_csv), "priority_score")
                 /\ priority_global_csv' = HeadK(priority_df', kg)
                 /\ \E s \in SortedByCountry(PriorityRows(combined_csv)) :
                        priority_by_country_csv' = GroupHead(s, kc)
    /\ UNCHANGED <<tableVars, clusterVars, mainVars, aggVars, labelVars>>

----------------------------------------------------------------------------
(* Specification of merge followed by scoring: aggregate tables over three *)
(* keys in two countries, totals zero or positive                          *)

ScoreKeys == {<<"AAA", "g1">>, <<"AAA", "g2">>, <<"BBB", "g1">>}

ScoreQty == {Num(q) : q \in 0..MaxQty}

InitScore ==
    /\ res_csv \in {AggCsv(T) : T \in AggTables(ScoreKeys, ScoreQty, {Num(1)}, "2023-12-31 00:00:00")}
    /\ nonres_csv \in {AggCsv(T) : T \in AggTables(ScoreKeys, ScoreQty, {Num(1)}, "2024-12-31 00:00:00")}
    /\ Len(res_csv) + Len(nonres_csv) > 0
    /\ combined_csv = <<>>
    /\ stage = "aggregated"
    /\ ScoreInit
    /\ ClusterInit
    /\ AggIdle
    /\ LabelIdle
    /\ MainIdle

NextScore == MergeHotspotTables \/ ComputePriorityScores

SpecScore == InitScore /\ [][NextScore]_vars

----------------------------------------------------------------------------
(* Claims about compute_priority_scores (checked under SpecScore) *)

\* the positions of priority_df whose country has one combined_emissions value
UniformCountry(df, i) ==
    \A j \in GroupOf(df, i) : df[j].combined_emissions = df[i].combined_emissions

\* rank is a dense descending rank of score over the positions idx of df
IsDenseRank(df, idx, score, rank) ==
    /\ \A i \in idx : \A j \in idx :
           /\ df[i][score] = df[j][score] => df[i][rank] = df[j][rank]
           /\ FGreater(df[i][score], df[j][score]) => df[i][rank] < df[j][rank]
    /\ {df[i][rank] : i \in idx} = 1..Cardinality({df[i][score] : i \in idx})

\* C4: priority_rank_global is a dense rank of priority_score over all rows
\* and priority_rank_country a dense rank of priority_score_country within
\* each country: equal scores share a rank, a higher score has a smaller
\* rank, and the ranks used are exactly 1..m for m distinct scores.
C4_DenseRanks ==
    stage = "scored" =>
        /\ IsDenseRank(priority_df, 1..Len(priority_df),
                       "priority_score", "priority_rank_global")
        /\ \A i \in 1..Len(priority_df) :
               IsDenseRank(priority_df, GroupOf(priority_df, i),
                           "priority_score_country", "priority_rank_country")

\* three rows ranked 1, 1, 2 globally, and a country whose rows rank 1 and 2
C4_Witness ==
    /\ stage = "scored"
    /\ Len(priority_df) = 3
    /\ priority_df[1].priority_rank_global = 1
    /\ priority_df[2].priority_rank_global = 1
    /\ priority_df[3].priority_rank_global = 2
    /\ \E i, j \in 1..3 :
         /\ priority_df[i].iso3_country = priority_df[j].iso3_country
         /\ priority_df[i].priority_rank_country = 1
         /\ priority_df[j].priority_rank_country = 2

\* C5: every row of a country whose rows all hold the same
\* combined_emissions (a single row included) gets priority_score_country
\* = 0, and the scorer does not fail on a table holding such a country.
C5_UniformCountryZero ==
    /\ stage = "scored" =>
           \A i \in 1..Len(priority_df) :
               UniformCountry(priority_df, i)
                   => priority_df[i].priority_score_country = Num(0)
    /\ stage = "score_error" =>
           \A i \in 1..Len(combined_csv) : ~UniformCountry(combined_csv, i)

\* a scored table with a country of two rows of equal positive emissions
\* and a country of a single row
C5_Witness ==
    /\ stage = "scored"
    /\ \E i, j \in 1..Len(priority_df) :
         /\ i # j
         /\ priority_df[i].iso3_country = priority_df[j].iso3_country
         /\ UniformCountry(priority_df, i)
         /\ FGreater(priority_df[i].combined_emissions, Num(0))
    /\ \E i \in 1..Len(priority_df) : GroupOf(priority_df, i) = {i}

\* C6: between any two scored rows, with equal res_share the row of larger
\* combined_emissions has the strictly larger priority_score, and with equal
\* combined_emissions the row of larger res_share has the strictly larger
\* priority_score.
C6_ScoreMonotone ==
    stage = "scored" =>
        \A i \in 1..Len(priority_df) : \A j \in 1..Len(priority_df) :
            LET a == priority_df[i]
                b == priority_df[j]
            IN  /\ (a.res_share = b.res_share
                      /\ FLess(a.combined_emissions, b.combined_emissions))
                       => FLess(a.priority_score, b.priority_score)
                /\ (a.combined_emissions = b.combined_emissions
                      /\ FLess(a.res_share, b.res_share))
                       => FLess(a.priority_score, b.priority_score)

\* a scored table with two rows of equal share and different emissions and
\* two rows of equal emissions and different share
C6_Witness ==
    /\ stage = "scored"
    /\ \E i, j \in 1..Len(priority_df) :
         /\ priority_df[i].res_share = priority_df[j].res_share
         /\ FLess(priority_df[i].combined_emissions, priority_df[j].combined_emissions)
    /\ \E i, j \in 1..Len(priority_df) :
         /\ priority_df[i].combined_emissions = priority_df[j].combined_emissions
         /\ FLess(priority_df[i].res_share, priority_df[j].res_share)

\* C9 as stated: every row of both written tables carries every column of
\* the combined hotspot table.
C9_AllCombinedColumns ==
    stage = "scored" =>
        \A r \in RowsOf(priority_global_csv) \cup RowsOf(priority_by_country_csv) :
            CombinedCols \subseteq DOMAIN r

\* C9 amended: every row of both written tables carries exactly the columns
\* of ordered_cols: iso3_country, geometry_ref, combined_emissions,
\* res_emissions, nonres_emissions, res_share, latest_end_time and the two
\* scores and two ranks; nonres_share and the three n_sources columns of
\* the combined table are not written.
C9_OrderedColumns ==
    stage = "scored" =>
        \A r \in RowsOf(priority_global_csv) \cup RowsOf(priority_by_country_csv) :
            /\ DOMAIN r = PriorityCols
            /\ CombinedCols \ DOMAIN r =
                   {"nonres_share", "res_n_sources", "nonres_n_sources",
                    "combined_n_sources"}

\* both tables written with rows in them
C9_Witness ==
    /\ stage = "scored"
    /\ Len(priority_global_csv) > 0
    /\ Len(priority_by_country_csv) > 1

Min(a, b) == IF a < b THEN a ELSE b

\* C10: the global table holds min(K, n) rows of the scored frame in
\* descending priority_score order and no row left out scores higher than a
\* row kept; the per-country table holds, for each country, min(K, rows of
\* the country) of its rows in descending priority_score_country order and
\* no row of the country left out scores higher than one of its rows kept.
C10_TopK ==
    stage = "scored" =>
        LET all == RowsOf(priority_df)
            g == priority_global_csv
            c == priority_by_country_csv
            Of(T, code) == {r \in T : r.iso3_country = code}
        IN  /\ Len(g) = Min(top_k_global, Len(priority_df))
            /\ RowsOf(g) \subseteq all
            /\ Cardinality(RowsOf(g)) = Len(g)
            /\ \A i \in 1..Len(g) : \A j \in 1..Len(g) :
                   i < j => FLeq(g[j].priority_score, g[i].priority_score)
            /\ \A r \in RowsOf(g) : \A q \in all \ RowsOf(g) :
                   ~FGreater(q.priority_score, r.priority_score)
            /\ RowsOf(c) \subseteq all
            /\ Cardinality(RowsOf(c)) = Len(c)
            /\ \A code \in {r.iso3_country : r \in all} :
                   /\ Cardinality(Of(RowsOf(c), code))
                          = Min(top_k_per_country, Cardinality(Of(all, code)))
                   /\ \A r \in Of(RowsOf(c), code) : \A q \in Of(all, code) \ RowsOf(c) :
                          ~FGreater(q.priority_score_country, r.priority_score_country)
            /\ \A i \in 1..Len(c) : \A j \in 1..Len(c) :
                   (i < j /\ c[i].iso3_country = c[j].iso3_country)
                       => FLeq(c[j].priority_score_country, c[i].priority_score_country)

\* both tables truncated: a lower-scored row left out of the global table
\* and a lower-scored row of a country left out of the per-country table
C10_Witness ==
    /\ stage = "scored"
    /\ Len(priority_global_csv) = 2
    /\ \E q \in RowsOf(priority_df) \ RowsOf(priority_global_csv) :
         FLess(q.priority_score, priority_global_csv[2].priority_score)
    /\ \E q \in RowsOf(priority_df) \ RowsOf(priority_by_country_csv) :
         \E r \in RowsOf(priority_by_country_csv) :
             /\ r.iso3_country = q.iso3_country
             /\ FLess(q.priority_score_country, r.priority_score_country)
    /\ \E r \in RowsOf(priority_by_country_csv) : r.iso3_country = "BBB"

----------------------------------------------------------------------------
(* cluster_hotspots *)

\* default of k_min, and the value main() passes
KMinDefault == 3

\* default of k_max, and the value main() passes
KMaxDefault == 10

\* values silhouette_score may return for a labelling, all within (-1, 1)
SilhouetteValues == {Flt(0 - 1, 4), Flt(1, 2)}

\* the frame after the numeric coercion and the clip of res_share
ClusterInput(csv) ==
    [i \in 1..Len(csv) |->
        [csv[i] EXCEPT !.combined_emissions = CoerceZero(@),
                       !.res_emissions = CoerceZero(@),
                       !.nonres_emissions = CoerceZero(@),
                       !.combined_n_sources = CoerceZero(@),
                       !.res_share = Clip(CoerceZero(@), Num(0), Num(1))]]

\* the feature vector of a row; StandardScaler maps each column by an
\* increasing affine map, so two rows are the same point exactly when
\* these vectors are equal
Features(r) ==
    <<Log1p(r.combined_emissions), r.res_share, Log1p(r.res_emissions),
      Log1p(r.nonres_emissions), Log1p(r.combined_n_sources)>>

DistinctPoints(df) == Cardinality({Features(df[i]) : i \in 1..Len(df)})

\* the labellings KMeans(n_clusters=k).fit_predict may return when
\* k <= n_samples: equal points share a label, and min(k, distinct points)
\* clusters are used
KMeansLabels(df, k) ==
    { lab \in [1..Len(df) -> 0..(k - 1)] :
        /\ \A i, j \in 1..Len(df) : Features(df[i]) = Features(df[j]) => lab[i] = lab[j]
        /\ Cardinality({lab[i] : i \in 1..Len(df)})
               = (IF k < DistinctPoints(df) THEN k ELSE DistinctPoints(df)) }

\* the k the loop of _select_k_silhouette fits and scores
Candidates(n, kmin, kmax) == {k \in kmin..kmax : ~(k <= 1 \/ k >= n)}

\* silhouette_score raises unless 2 <= number of labels <= n_samples - 1
SilhouetteRaises(df, k) ==
    LET used == IF k < DistinctPoints(df) THEN k ELSE DistinctPoints(df)
    IN  used < 2 \/ used > Len(df) - 1

\* the loop over range(k_min, k_max + 1): <<best_k, best_score>> after k..kmax
RECURSIVE SelectLoop(_, _, _, _, _, _)
SelectLoop(k, kmax, n, score, best_k, best_score) ==
    IF k > kmax THEN <<best_k, best_score>>
    ELSE IF k <= 1 \/ k >= n
         THEN SelectLoop(k + 1, kmax, n, score, best_k, best_score)
         ELSE IF FGreater(score[k], best_score)
              THEN SelectLoop(k + 1, kmax, n, score, k, score[k])
              ELSE SelectLoop(k + 1, kmax, n, score, best_k, best_score)

Max(a, b) == IF a > b THEN a ELSE b

\* _select_k_silhouette, given the scores of the candidates
SelectKSilhouette(n, kmin, kmax, score) ==
    LET res == SelectLoop(kmin, kmax, n, score, kmin, Num(0 - 1))
    IN  IF FLess(res[2], Num(0))
        THEN <<IF n >= 2 THEN Max(kmin, 2) ELSE 1, Num(0 - 1)>>
        ELSE res

\* KMeans.fit raises when n_samples < n_clusters
KMeansRaises(n, k) == n < k

\* ascending sort of the values at positions idx of column col
SortedValues(df, idx, col) ==
    CHOOSE s \in [1..Cardinality(idx) -> {df[i][col] : i \in idx}] :
        /\ \A v \in {df[i][col] : i \in idx} :
               Cardinality({p \in 1..Cardinality(idx) : s[p] = v})
                   = Cardinality({i \in idx : df[i][col] = v})
        /\ \A p, q \in 1..Cardinality(idx) : p < q => FLeq(s[p], s[q])

\* Series.median()
Median(df, idx, col) ==
    LET s == SortedValues(df, idx, col)
        n == Cardinality(idx)
    IN  IF n % 2 = 1 THEN s[(n + 1) \div 2]
        ELSE FDiv(FAdd(s[n \div 2], s[n \div 2 + 1]), Num(2))

\* Series.sum()
RECURSIVE SumOver(_, _, _)
SumOver(df, idx, col) ==
    IF idx = {} THEN Num(0)
    ELSE LET i == CHOOSE j \in idx : TRUE
         IN  FAdd(df[i][col], SumOver(df, idx \ {i}, col))

\* Series.mean()
Mean(df, idx, col) == FDiv(SumOver(df, idx, col), Num(Cardinality(idx)))

\* mutant of LabelCluster: "high" needs a median above the overall median
LabelClusterStrict(mean_res_share, median_emissions, overall_median) ==
    LET high_emissions == FLess(overall_median, median_emissions)
    IN  IF FLeq(Flt(4, 5), mean_res_share) /\ high_emissions
        THEN "Residential-dominant high"
        ELSE IF FLeq(Flt(4, 5), mean_res_share)
        THEN "Residential-dominant moderate"
        ELSE IF FLeq(mean_res_share, Flt(2, 5)) /\ high_emissions
        THEN "Non-residential heavy high"
        ELSE IF FLeq(mean_res_share, Flt(2, 5))
        THEN "Non-residential heavy moderate"
        ELSE IF high_emissions THEN "Mixed high"
        ELSE "Mixed moderate"

\* _label_cluster
LabelCluster(mean_res_share, median_emissions, overall_median) ==
    LET high_emissions == FLeq(overall_median, median_emissions)
    IN  IF FLeq(Flt(4, 5), mean_res_share) /\ high_emissions
        THEN "Residential-dominant high"
        ELSE IF FLeq(Flt(4, 5), mean_res_share)
        THEN "Residential-dominant moderate"
        ELSE IF FLeq(mean_res_share, Flt(2, 5)) /\ high_emissions
        THEN "Non-residential heavy high"
        ELSE IF FLeq(mean_res_share, Flt(2, 5))
        THEN "Non-residential heavy moderate"
        ELSE IF high_emissions THEN "Mixed high"
        ELSE "Mixed moderate"

\* max(overall_emissions, 1e-9)
TotalGuard(overall) ==
    IF overall.den = 0 \/ (overall.num > 0 /\ overall.den \div overall.num < 1000000000)
    THEN overall
    ELSE Flt(1, 1000000000)

\* mutant of SummaryRow: n_hotspots counts the distinct geometry_ref values
SummaryRowNunique(df, lab, c) ==
    LET idx == {i \in 1..Len(df) : lab[i] = c}
        all == 1..Len(df)
        total == SumOver(df, idx, "combined_emissions")
        mean_share == Mean(df, idx, "res_share")
        med == Median(df, idx, "combined_emissions")
        n == Cardinality({df[i].geometry_ref : i \in idx})
    IN  [cluster_id |-> c,
         n_hotspots |-> n,
         sum_combined_emissions |-> total,
         median_combined_emissions |-> med,
         mean_res_share |-> mean_share,
         median_res_share |-> Median(df, idx, "res_share"),
         share_of_hotspots |-> Flt(n, Len(df)),
         share_of_total_emissions |->
             FDiv(total, TotalGuard(SumOver(df, all, "combined_emissions"))),
         cluster_label |->
             LabelCluster(mean_share, med, Median(df, all, "combined_emissions"))]

\* the summary row of cluster id c for the labelling lab
SummaryRow(df, lab, c) ==
    LET idx == {i \in 1..Len(df) : lab[i] = c}
        all == 1..Len(df)
        total == SumOver(df, idx, "combined_emissions")
        mean_share == Mean(df, idx, "res_share")
        med == Median(df, idx, "combined_emissions")
    IN  [cluster_id |-> c,
         n_hotspots |-> Cardinality(idx),
         sum_combined_emissions |-> total,
         median_combined_emissions |-> med,
         mean_res_share |-> mean_share,
         median_res_share |-> Median(df, idx, "res_share"),
         share_of_hotspots |-> Flt(Cardinality(idx), Len(df)),
         share_of_total_emissions |->
             FDiv(total, TotalGuard(SumOver(df, all, "combined_emissions"))),
         cluster_label |->
             LabelCluster(mean_share, med, Median(df, all, "combined_emissions"))]

\* df.groupby("cluster_id").agg(...): one row per cluster id in use
SummaryRows(df, lab) == {SummaryRow(df, lab, c) : c \in {lab[i] : i \in 1..Len(df)}}

\* mutant of ClusteredRows: the label computed from the row's own values
ClusteredRowsOwnLabel(df, lab, k, sil) ==
    { [iso3_country |-> df[i].iso3_country, geometry_ref |-> df[i].geometry_ref,
       res_emissions |-> df[i].res_emissions,
       nonres_emissions |-> df[i].nonres_emissions,
       combined_emissions |-> df[i].combined_emissions,
       res_share |-> df[i].res_share, nonres_share |-> df[i].nonres_share,
       res_n_sources |-> df[i].res_n_sources,
       nonres_n_sources |-> df[i].nonres_n_sources,
       combined_n_sources |-> df[i].combined_n_sources,
       latest_end_time |-> df[i].latest_end_time,
       cluster_id |-> lab[i], k_selected |-> k, silhouette_score_selected |-> sil,
       cluster_label |->
           LabelCluster(df[i].res_share, df[i].combined_emissions,
                        Median(df, 1..Len(df), "combined_emissions"))]
      : i \in 1..Len(df) }

\* the rows of df with cluster_id, k_selected, silhouette_score_selected
\* and the label mapped from the summary
ClusteredRows(df, lab, k, sil) ==
    { [iso3_country |-> df[i].iso3_country, geometry_ref |-> df[i].geometry_ref,
       res_emissions |-> df[i].res_emissions,
       nonres_emissions |-> df[i].nonres_emissions,
       combined_emissions |-> df[i].combined_emissions,
       res_share |-> df[i].res_share, nonres_share |-> df[i].nonres_share,
       res_n_sources |-> df[i].res_n_sources,
       nonres_n_sources |-> df[i].nonres_n_sources,
       combined_n_sources |-> df[i].combined_n_sources,
       latest_end_time |-> df[i].latest_end_time,
       cluster_id |-> lab[i], k_selected |-> k, silhouette_score_selected |-> sil,
       cluster_label |-> SummaryRow(df, lab, lab[i]).cluster_label]
      : i \in 1..Len(df) }

\* cluster_hotspots raises while selecting k or in the final fit
ClusterRaises(df, kmin, kmax, k) ==
    \/ \E c \in Candidates(Len(df), kmin, kmax) : SilhouetteRaises(df, c)
    \/ KMeansRaises(Len(df), k)

ClusterHotspots ==
    /\ stage = "merged"
    /\ \E range \in {<<KMinDefault, KMaxDefault>>, <<2, 3>>} :
       \E score \in [Candidates(Len(combined_csv), range[1], range[2]) -> SilhouetteValues] :
         LET df == ClusterInput(combined_csv)
             sel == SelectKSilhouette(Len(df), range[1], range[2], score)
         IN  /\ k_min' = range[1]
             /\ k_max' = range[2]
             /\ IF ClusterRaises(df, range[1], range[2], sel[1])
                THEN /\ stage' = "cluster_error"
                     /\ UNCHANGED <<k_selected, silhouette_selected, scores,
                                    clustered_csv, cluster_summary_csv>>
                ELSE /\ stage' = "clustered"
                     /\ scores' = score
                     /\ k_selected' = sel[1]
                     /\ silhouette_selected' = sel[2]
                     /\ \E lab \in KMeansLabels(df, sel[1]) :
                          /\ clustered_csv' \in
                                 SortedDesc(ClusteredRows(df, lab, sel[1], sel[2]),
                                            "combined_emissions")
                          /\ cluster_summary_csv' \in
                                 SortedDesc(SummaryRows(df, lab), "share_of_total_emissions")
    /\ UNCHANGED <<tableVars, scoreVars, mainVars, aggVars, labelVars>>

----------------------------------------------------------------------------
(* Specification of merge followed by clustering: one to four rows, totals *)
(* zero or MaxQty                                                          *)

ClusterKeys == {<<"AAA", "g1">>, <<"AAA", "g2">>, <<"BBB", "g1">>, <<"BBB", "g2">>}

ClusterQty == {Num(0), Num(MaxQty)}

\* a positive total below the 1e-9 floor of the summary: 5e-10
TinyQty == Flt(1, 2000000000)

\* a non-residential table of three hotspots whose emissions add up to TinyQty
TinyNonres ==
    {AggRow(<<"AAA", "g1">>, TinyQty, Num(1), "2024-12-31 00:00:00"),
     AggRow(<<"AAA", "g2">>, Num(0), Num(1), "2024-12-31 00:00:00"),
     AggRow(<<"BBB", "g1">>, Num(0), Num(1), "2024-12-31 00:00:00")}

InitCluster ==
    /\ \/ /\ res_csv \in {AggCsv(T) :
                 T \in AggTables({<<"AAA", "g1">>}, ClusterQty, {Num(1)}, "2023-12-31 00:00:00")}
          /\ nonres_csv \in {AggCsv(T) :
                 T \in AggTables(ClusterKeys, ClusterQty, {Num(1)}, "2024-12-31 00:00:00")}
       \/ /\ res_csv = <<>>
          /\ nonres_csv = AggCsv(TinyNonres)
    /\ Len(res_csv) + Len(nonres_csv) > 0
    /\ combined_csv = <<>>
    /\ stage = "aggregated"
    /\ ScoreInit
    /\ ClusterInit
    /\ AggIdle
    /\ LabelIdle
    /\ MainIdle

NextCluster == MergeHotspotTables \/ ClusterHotspots

SpecCluster == InitCluster /\ [][NextCluster]_vars

----------------------------------------------------------------------------
(* Claims about cluster_hotspots (checked under SpecCluster) *)

\* C3 as stated: with k_min = 3, k_max = 10 and a table too small to have a
\* candidate k, cluster_hotspots completes and writes both tables, with
\* k = 2 when there are at least 2 rows, k = 1 for a single row, and the
\* silhouette score -1.
C3_SmallDatasetFallback ==
    (/\ stage \in {"clustered", "cluster_error"}
     /\ k_min = KMinDefault
     /\ k_max = KMaxDefault
     /\ Candidates(Len(combined_csv), k_min, k_max) = {})
        => /\ stage = "clustered"
           /\ k_selected = (IF Len(combined_csv) >= 2 THEN 2 ELSE 1)
           /\ silhouette_selected = Num(0 - 1)
           /\ Len(clustered_csv) = Len(combined_csv)
           /\ Len(cluster_summary_csv) > 0

\* the sum of the whole-number column col of table s
RECURSIVE SumCount(_, _)
SumCount(s, col) == IF s = <<>> THEN 0 ELSE s[1][col] + SumCount(Tail(s), col)

\* the summary has exactly one row per cluster id given to a row of the
\* clustered table; n_hotspots is the number of rows with that id; the
\* n_hotspots sum to the number of input rows and the share_of_hotspots to 1
SummaryCounts ==
    /\ {cluster_summary_csv[p].cluster_id : p \in 1..Len(cluster_summary_csv)}
           = {clustered_csv[j].cluster_id : j \in 1..Len(clustered_csv)}
    /\ \A p, q \in 1..Len(cluster_summary_csv) :
           p # q => cluster_summary_csv[p].cluster_id # cluster_summary_csv[q].cluster_id
    /\ \A p \in 1..Len(cluster_summary_csv) :
           cluster_summary_csv[p].n_hotspots =
               Cardinality({j \in 1..Len(clustered_csv) :
                               clustered_csv[j].cluster_id = cluster_summary_csv[p].cluster_id})
    /\ SumCount(cluster_summary_csv, "n_hotspots") = Len(combined_csv)
    /\ SumOver(cluster_summary_csv, 1..Len(cluster_summary_csv), "share_of_hotspots") = Num(1)

\* C21 as stated: the summary has one row per cluster id in use with the
\* right counts, and its share_of_total_emissions sum to 1 whenever the total
\* combined_emissions of the table is positive.
C21_SummaryShares ==
    stage = "clustered" =>
        /\ SummaryCounts
        /\ FGreater(SumOver(combined_csv, 1..Len(combined_csv), "combined_emissions"), Num(0))
              => SumOver(cluster_summary_csv, 1..Len(cluster_summary_csv),
                         "share_of_total_emissions") = Num(1)

\* C21 with the 1e-9 floor of the divisor: the counts as stated; the
\* share_of_total_emissions sum to 1 whenever the total combined_emissions is
\* at least 1e-9, and to total / 1e-9 for a smaller total.
C21_SummarySharesFloor ==
    stage = "clustered" =>
        LET total == SumOver(combined_csv, 1..Len(combined_csv), "combined_emissions")
            shares == SumOver(cluster_summary_csv, 1..Len(cluster_summary_csv),
                              "share_of_total_emissions")
        IN  /\ SummaryCounts
            /\ IF total.den = 0 \/ (total.num > 0 /\ total.den \div total.num < 1000000000)
               THEN shares = Num(1)
               ELSE shares = FDiv(total, Flt(1, 1000000000))

\* a summary of two clusters over four hotspots with a total of at least 1e-9
C21_Witness ==
    /\ stage = "clustered"
    /\ Len(combined_csv) = 4
    /\ Len(cluster_summary_csv) = 2
    /\ \E p \in 1..2 : cluster_summary_csv[p].n_hotspots = 3
    /\ FGreater(SumOver(combined_csv, 1..4, "combined_emissions"), Num(1))

\* a summary over a positive total below 1e-9 whose shares sum to one half
C21_TinyTotalReached ==
    /\ stage = "clustered"
    /\ SumOver(combined_csv, 1..Len(combined_csv), "combined_emissions") = TinyQty
    /\ SumOver(cluster_summary_csv, 1..Len(cluster_summary_csv),
               "share_of_total_emissions") = Flt(1, 2)

\* the columns of the combined table held by a row of the clustered table
CombinedPart(r) == [c \in CombinedCols |-> r[c]]

\* C16: the clustered table holds every row of the combined table exactly
\* once; each row carries a cluster id in 0..k_selected-1, the label of the
\* one summary row with that cluster id (one of the six archetype labels),
\* and the k_selected and silhouette_score_selected of the run; the rows are
\* in descending order of combined_emissions.
C16_ClusteredTable ==
    stage = "clustered" =>
        /\ Len(clustered_csv) = Len(combined_csv)
        /\ \A i \in 1..Len(combined_csv) :
               Cardinality({j \in 1..Len(clustered_csv) :
                               CombinedPart(clustered_csv[j]) = combined_csv[i]}) = 1
        /\ \A j \in 1..Len(clustered_csv) :
               LET r == clustered_csv[j]
                   sums == {p \in 1..Len(cluster_summary_csv) :
                               cluster_summary_csv[p].cluster_id = r.cluster_id}
               IN  /\ r.cluster_id \in 0..(k_selected - 1)
                   /\ Cardinality(sums) = 1
                   /\ \A p \in sums : r.cluster_label = cluster_summary_csv[p].cluster_label
                   /\ r.cluster_label \in
                          {"Residential-dominant high", "Residential-dominant moderate",
                           "Non-residential heavy high", "Non-residential heavy moderate",
                           "Mixed high", "Mixed moderate"}
                   /\ r.k_selected = k_selected
                   /\ r.silhouette_score_selected = silhouette_selected
        /\ \A i, j \in 1..Len(clustered_csv) :
               i < j => FLeq(clustered_csv[j].combined_emissions,
                             clustered_csv[i].combined_emissions)

\* a clustering of four rows into at least two clusters, one of them holding
\* rows of different residential share
C16_Witness ==
    /\ stage = "clustered"
    /\ Len(clustered_csv) = 4
    /\ \E i, j \in 1..4 : clustered_csv[i].cluster_id # clustered_csv[j].cluster_id
    /\ \E i, j \in 1..4 :
         /\ clustered_csv[i].cluster_id = clustered_csv[j].cluster_id
         /\ clustered_csv[i].res_share # clustered_csv[j].res_share

\* C17 as stated: the selection tries every k of k_min..k_max with
\* 2 <= k < number of rows and, when there is such a k, returns the one with
\* the highest silhouette score (the smallest such k when several tie)
\* together with that score.
C17_BestSilhouette ==
    stage = "clustered" =>
        /\ DOMAIN scores = Candidates(Len(combined_csv), k_min, k_max)
        /\ DOMAIN scores # {} =>
               /\ k_selected \in DOMAIN scores
               /\ silhouette_selected = scores[k_selected]
               /\ \A k \in DOMAIN scores :
                      /\ FLeq(scores[k], scores[k_selected])
                      /\ k < k_selected => FLess(scores[k], scores[k_selected])

----------------------------------------------------------------------------
(* Specification of _label_cluster alone: any mean share in tenths and any *)
(* pair of medians, NaN included                                           *)

LabelShares == {NaN} \cup {Flt(n, 10) : n \in 0..10}

LabelMedians == {NaN} \cup {Flt(n, 2) : n \in 0..(2 * MaxQty)}

\* summary.apply(lambda row: _label_cluster(...)) on one row
LabelClusterCall ==
    /\ stage = "label"
    /\ label_result = ""
    /\ label_result' = LabelCluster(label_args.mean_res_share,
                                    label_args.median_emissions,
                                    label_args.overall_median)
    /\ UNCHANGED <<label_args, stage>>
    /\ UNCHANGED <<tableVars, scoreVars, clusterVars, mainVars, aggVars>>

InitLabel ==
    /\ label_args \in [mean_res_share : LabelShares, median_emissions : LabelMedians,
                        overall_median : LabelMedians]
    /\ label_result = ""
    /\ res_csv = <<>>
    /\ nonres_csv = <<>>
    /\ combined_csv = <<>>
    /\ stage = "label"
    /\ ScoreInit
    /\ ClusterInit
    /\ AggIdle
    /\ MainIdle

NextLabel == LabelClusterCall

SpecLabel == InitLabel /\ [][NextLabel]_vars

----------------------------------------------------------------------------
(* Claims about _label_cluster (checked under SpecLabel) *)

\* the rule table: the row chosen by the share, the column by "high"
RuleTable(share_row, high) ==
    CASE share_row = "res" /\ high -> "Residential-dominant high"
      [] share_row = "res" /\ ~high -> "Residential-dominant moderate"
      [] share_row = "nonres" /\ high -> "Non-residential heavy high"
      [] share_row = "nonres" /\ ~high -> "Non-residential heavy moderate"
      [] share_row = "else" /\ high -> "Mixed high"
      [] OTHER -> "Mixed moderate"

\* C18: _label_cluster returns, for every triple of arguments, the label the
\* rule table gives: with high = (cluster median >= overall median), a mean
\* share >= 0.8 gives 'Residential-dominant high' / 'moderate', a mean share
\* <= 0.4 gives 'Non-residential heavy high' / 'moderate', any other share
\* 'Mixed high' / 'moderate'; the label depends on the three arguments only.
C18_LabelRuleTable ==
    label_result # "" =>
        LET a == label_args
            high == /\ ~a.median_emissions.nan /\ ~a.overall_median.nan
                    /\ ~FLess(a.median_emissions, a.overall_median)
            share_row == IF ~a.mean_res_share.nan /\ ~FLess(a.mean_res_share, Flt(8, 10))
                         THEN "res"
                         ELSE IF ~a.mean_res_share.nan
                                 /\ ~FGreater(a.mean_res_share, Flt(4, 10))
                              THEN "nonres"
                              ELSE "else"
        IN  label_result = RuleTable(share_row, high)

\* a call with a mean share of exactly 0.8 and a median equal to the overall
\* median
C18_Witness ==
    /\ label_result = "Residential-dominant high"
    /\ label_args.mean_res_share = Flt(8, 10)
    /\ label_args.median_emissions = label_args.overall_median

\* every one of the six labels is returned by some call
C18_ModerateReached ==
    /\ label_result = "Residential-dominant moderate"
    /\ label_args.mean_res_share = Num(1)

----------------------------------------------------------------------------
(* aggregate_hotspots_by_geometry and rank_countries_countryfile: the two  *)
(* DuckDB stages that read a Parquet file                                  *)

\* SQL NULL in a VARCHAR column
Null == "<NULL>"

\* required of aggregate_hotspots_by_geometry
AggRequired == {"iso3_country", "geometry_ref", "emissions_quantity", "source_id", "end_time"}

\* required of rank_countries_countryfile
RankRequired == {"iso3_country", "end_time", "emissions_quantity"}

\* mutant of MissingColumns: only one of the missing columns is reported
FirstMissing(required, cols) ==
    IF required \subseteq cols THEN {} ELSE {CHOOSE c \in required \ cols : TRUE}

\* missing = required - set(cols)
MissingColumns(required, cols) == required \ cols

\* TRY_CAST(emissions_quantity AS DOUBLE): NULL (here NaN) when the text is
\* not a number
TryCastDouble(c) == IF c.parses THEN Num(c.value) ELSE NaN

\* SUM(...) over the rows idx: NULLs are skipped, and the sum of no value is NULL
RECURSIVE SqlSum(_, _)
SqlSum(rows, idx) ==
    LET vals == {i \in idx : ~TryCastDouble(rows[i].emissions_quantity).nan}
    IN  IF vals = {} THEN NaN
        ELSE LET i == CHOOSE j \in vals : TRUE
                 rest == vals \ {i}
             IN  IF rest = {} THEN TryCastDouble(rows[i].emissions_quantity)
                 ELSE FAdd(TryCastDouble(rows[i].emissions_quantity), SqlSum(rows, rest))

\* mutant of CountDistinct: COUNT(source_id)
CountAll(rows, idx) == Cardinality({i \in idx : rows[i].source_id # Null})

\* COUNT(DISTINCT source_id): NULLs are not counted
CountDistinct(rows, idx) == Cardinality({rows[i].source_id : i \in idx} \ {Null})

\* MAX(end_time) over the rows idx; NULL is written as an empty cell
SqlMaxEndTime(rows, idx) ==
    LET ts == {rows[i].end_time : i \in idx} \ {Null}
    IN  IF ts = {} THEN ""
        ELSE CHOOSE t \in ts : \A u \in ts : ToDatetime(u) <= ToDatetime(t)

\* WHERE iso3_country IS NOT NULL AND geometry_ref IS NOT NULL
AggKept(rows) ==
    {i \in 1..Len(rows) : rows[i].iso3_country # Null /\ rows[i].geometry_ref # Null}

\* GROUP BY iso3_country, geometry_ref: the rows of the group of key k
AggGroup(rows, k) ==
    {i \in AggKept(rows) : <<rows[i].iso3_country, rows[i].geometry_ref>> = k}

\* the result set of the aggregation query
AggregateRows(rows) ==
    { AggRow(k, SqlSum(rows, AggGroup(rows, k)),
             Num(CountDistinct(rows, AggGroup(rows, k))),
             SqlMaxEndTime(rows, AggGroup(rows, k))) :
        k \in {<<rows[i].iso3_country, rows[i].geometry_ref>> : i \in AggKept(rows)} }

\* the result set of the ranking query: GROUP BY iso3_country (NULL is a group)
RankRows(rows) ==
    { [iso3_country |-> c,
       latest_end_time |-> SqlMaxEndTime(rows, {i \in 1..Len(rows) : rows[i].iso3_country = c}),
       total_emissions |-> SqlSum(rows, {i \in 1..Len(rows) : rows[i].iso3_country = c})] :
        c \in {rows[i].iso3_country : i \in 1..Len(rows)} }

\* the schema check both stages make before their query
RaiseMissing(msg, missing) ==
    /\ raised' = [exc |-> "ValueError", file |-> parquet_name, msg |-> msg,
                  missing |-> missing]
    /\ stage' = "schema_error"
    /\ UNCHANGED <<agg_df, queries>>

AggregateHotspotsByGeometry ==
    /\ stage = "loaded"
    /\ calls' = calls + 1
    /\ LET missing == MissingColumns(AggRequired, parquet_cols)
       IN  IF missing # {}
           THEN RaiseMissing("is missing required columns", missing)
           ELSE /\ queries' = queries + 1
                /\ \E s \in {t \in SeqsOf(AggregateRows(parquet_rows)) : AggOrdered(t)} :
                       agg_df' = [returned |-> TRUE, rows |-> s]
                /\ stage' = "hotspots_aggregated"
                /\ UNCHANGED raised
    /\ UNCHANGED <<parquet_name, parquet_cols, parquet_rows>>
    /\ UNCHANGED <<tableVars, scoreVars, clusterVars, mainVars, labelVars>>

RankCountriesCountryfile ==
    /\ stage = "loaded"
    /\ calls' = calls + 1
    /\ LET missing == MissingColumns(RankRequired, parquet_cols)
       IN  IF missing # {}
           THEN RaiseMissing("is not rankable (missing columns", missing)
           ELSE /\ queries' = queries + 1
                /\ \E s \in {t \in SeqsOf(RankRows(parquet_rows)) : AggOrdered(t)} :
                       agg_df' = [returned |-> TRUE, rows |-> s]
                /\ stage' = "countries_ranked"
                /\ UNCHANGED raised
    /\ UNCHANGED <<parquet_name, parquet_cols, parquet_rows>>
    /\ UNCHANGED <<tableVars, scoreVars, clusterVars, mainVars, labelVars>>

----------------------------------------------------------------------------
(* Specification of the two DuckDB stages: a Parquet file of at most two    *)
(* records, or one lacking some of the columns                             *)

\* emissions_quantity cells (all_varchar): text that parses to a number, or not
QtyCells ==
    {[parses |-> FALSE, value |-> 0]}
        \cup {[parses |-> TRUE, value |-> q] : q \in (0 - 1)..MaxQty}

RawRecords ==
    [iso3_country : {Null, "AAA"}, geometry_ref : {Null, "g1", "g2"},
     emissions_quantity : QtyCells, source_id : {Null, "s1", "s2"},
     end_time : {Null, "2023-12-31 00:00:00", "2024-12-31 00:00:00"}]

ParquetNames ==
    {"residential-onsite-fuel-usage_emissions_sources_v4_7_1.parquet",
     "residential-onsite-fuel-usage_country_emissions_v4_7_1.parquet"}

InitAgg ==
    /\ parquet_name \in ParquetNames
    /\ \/ /\ parquet_cols = AggRequired
          /\ parquet_rows \in UNION {[1..n -> RawRecords] : n \in 0..2}
       \/ /\ parquet_cols \in (SUBSET AggRequired) \ {AggRequired}
          /\ parquet_rows = <<>>
    /\ agg_df = [returned |-> FALSE, rows |-> <<>>]
    /\ queries = 0
    /\ raised = [exc |-> "none", file |-> "", msg |-> "", missing |-> {}]
    /\ calls = 0
    /\ res_csv = <<>>
    /\ nonres_csv = <<>>
    /\ combined_csv = <<>>
    /\ stage = "loaded"
    /\ ScoreInit
    /\ ClusterInit
    /\ LabelIdle
    /\ MainIdle

NextAgg == AggregateHotspotsByGeometry \/ RankCountriesCountryfile

SpecAgg == InitAgg /\ [][NextAgg]_vars

----------------------------------------------------------------------------
(* Claims about the DuckDB stages (checked under SpecAgg) *)

\* the sum over the rows idx with 0 for a quantity that does not parse
RECURSIVE ZeroFilledSum(_, _)
ZeroFilledSum(rows, idx) ==
    IF idx = {} THEN Num(0)
    ELSE LET i == CHOOSE j \in idx : TRUE
         IN  FAdd(FillNa(TryCastDouble(rows[i].emissions_quantity), Num(0)),
                  ZeroFilledSum(rows, idx \ {i}))

C12_NullDropped ==
    /\ stage = "hotspots_aggregated"
    /\ Len(parquet_rows) = 2
    /\ Len(agg_df.rows) = 1
    /\ parquet_rows[1].geometry_ref = Null
    /\ agg_df.rows[1].total_emissions.nan

\* C13 as stated: every row aggregate_hotspots_by_geometry returns has
\* total_emissions >= 0, whatever the input records.
C13_TotalNonNegative ==
    stage = "hotspots_aggregated" =>
        \A i \in 1..Len(agg_df.rows) : FLeq(Num(0), agg_df.rows[i].total_emissions)

\* C14: when the file lacks a required column (of the aggregator, or of the
\* country ranker), the stage raises a ValueError carrying the file's name and
\* exactly the set of required columns that are missing, has executed no
\* aggregation query, has returned no table, and was called once (there is
\* no second attempt).
C14_MissingColumnsError ==
    /\ calls <= 1
    /\ (stage = "hotspots_aggregated" => AggRequired \subseteq parquet_cols)
    /\ (stage = "countries_ranked" => RankRequired \subseteq parquet_cols)
    /\ (stage = "schema_error") <=> (raised.exc = "ValueError")
    /\ stage = "schema_error" =>
          /\ raised.file = parquet_name
          /\ raised.missing # {}
          /\ raised.msg = "is missing required columns"
                => raised.missing = AggRequired \ parquet_cols
          /\ raised.msg = "is not rankable (missing columns"
                => raised.missing = RankRequired \ parquet_cols
          /\ queries = 0
          /\ ~agg_df.returned
          /\ calls = 1

\* a stage has raised on a file lacking two of its required columns
C14_Witness ==
    /\ stage = "schema_error"
    /\ Cardinality(raised.missing) >= 2
    /\ raised.file = parquet_name

----------------------------------------------------------------------------
(* main(): the files on disk and the sequence of stage calls *)

\* the list files of main(), without the .csv extension
Files ==
    <<"non-residential-onsite-fuel-usage_country_emissions_v4_7_1",
      "non-residential-onsite-fuel-usage_emissions_sources_confidence_v4_7_1",
      "non-residential-onsite-fuel-usage_emissions_sources_v4_7_1",
      "other-onsite-fuel-usage_country_emissions_v4_7_1",
      "residential-onsite-fuel-usage_country_emissions_v4_7_1",
      "residential-onsite-fuel-usage_emissions_sources_confidence_v4_7_1",
      "residential-onsite-fuel-usage_emissions_sources_v4_7_1">>

\* the names holding "_country_emissions_"
CountryFiles == {Files[1], Files[4], Files[5]}

\* targets of generate_hotspots, in dict order: Parquet stem, output table
Targets ==
    <<<<"residential-onsite-fuel-usage_emissions_sources_v4_7_1",
        "hotspots_residential_geometry.csv">>,
      <<"non-residential-onsite-fuel-usage_emissions_sources_v4_7_1",
        "hotspots_non_residential_geometry.csv">>>>

RawCsv(f) == <<"data/raw", f, ".csv">>

Parquet(f) == <<"data/processed", f, ".parquet">>

EdaCsv(f) == <<"outputs/tables", "eda_missing_", f>>

RankingCsv(f) == <<"outputs/tables", "ranking_", f>>

Table(name) == <<"outputs/tables", name, "">>

CombinedCsv == Table("hotspots_combined_geometry.csv")

PriorityOutputs ==
    {Table("hotspots_priority_global.csv"), Table("hotspots_priority_by_country.csv")}

ClusterOutputs ==
    {Table("hotspots_clustered.csv"), Table("hotspots_cluster_summary.csv")}

\* what a file holds is written as the list of the steps that made it,
\* ending with the content it was derived from
RawContent == <<"raw">>

\* what a file left by an earlier run holds
EarlierContent == <<"earlier">>

\* csv_to_parquet: COPY (SELECT * FROM read_csv(...)) TO parquet
ConvertContent(raw) == <<"parquet">> \o raw

\* missing_value_summary(pq_path).to_csv
EdaContent(pq) == <<"eda">> \o pq

\* rank_countries_countryfile(pq_path).to_csv
RankingContent(pq) == <<"ranking">> \o pq

\* aggregate_hotspots_by_geometry(pq_path).to_csv
HotspotContent(pq) == <<"hotspots">> \o pq

\* merge_hotspot_tables(residential_csv, non_residential_csv).to_csv
CombinedContent(res, nonres) == <<"combined">> \o res \o nonres

\* the two tables compute_priority_scores writes
PriorityContent(name, combined) == <<name>> \o combined

\* mutant of ClusterContent: KMeans seeded differently in each run
ClusterContentUnseeded(name, combined) ==
    <<name, IF run = 1 THEN "random_state=1" ELSE "random_state=2">> \o combined

\* the two tables cluster_hotspots writes, with random_state=42
ClusterContent(name, combined) == <<name, "random_state=42">> \o combined

\* the content function after file f is written with v
Put(c, f, v) == [g \in DOMAIN c \cup {f} |-> IF g = f THEN v ELSE c[g]]

\* the files out are written: c is the content afterwards
Store(out, c) ==
    /\ disk' = disk \cup out
    /\ written' = written \cup out
    /\ content' = c

\* the run ends with an exception: nothing further is called
Abort(exc) ==
    /\ pc' = "aborted"
    /\ error' = exc
    /\ failed' = pc
    /\ UNCHANGED <<cursor, skipped>>

\* no exception
Continue == UNCHANGED <<error, failed>>

\* mutant of IngestRuns: the Parquet is converted again whenever the raw CSV
\* is there
IngestIfRaw(f) == Parquet(f) \notin disk \/ RawCsv(f) \in disk

\* if not pq_path.exists()
IngestRuns(f) == Parquet(f) \notin disk

\* process_file(paths, files[cursor]); rankOk: rank_countries_countryfile
\* finds its required columns
ProcessFile ==
    /\ pc = "process_file"
    /\ LET f == Files[cursor]
       IN  IF IngestRuns(f) /\ RawCsv(f) \notin disk
           THEN \* csv_to_parquet raises FileNotFoundError
                /\ Abort("FileNotFoundError")
                /\ UNCHANGED <<disk, written, content>>
           ELSE \E rankOk \in BOOLEAN :
                LET ingested == IF IngestRuns(f) THEN {Parquet(f)} ELSE {}
                    ranked == IF f \in CountryFiles /\ rankOk THEN {RankingCsv(f)} ELSE {}
                    c1 == IF IngestRuns(f)
                          THEN Put(content, Parquet(f), ConvertContent(content[RawCsv(f)]))
                          ELSE content
                    c2 == Put(c1, EdaCsv(f), EdaContent(c1[Parquet(f)]))
                    c3 == IF ranked # {}
                          THEN Put(c2, RankingCsv(f), RankingContent(c2[Parquet(f)]))
                          ELSE c2
                IN  /\ f \notin CountryFiles => rankOk
                    /\ Store(ingested \cup {EdaCsv(f)} \cup ranked, c3)
                    /\ IF f \in CountryFiles /\ ~rankOk
                       THEN Abort("ValueError")
                       ELSE /\ Continue
                            /\ skipped' = skipped
                            /\ IF cursor < Len(Files)
                               THEN pc' = pc /\ cursor' = cursor + 1
                               ELSE pc' = "generate_hotspots" /\ cursor' = 1
    /\ UNCHANGED <<run, start>>
    /\ UNCHANGED <<tableVars, stage, scoreVars, clusterVars, aggVars, labelVars>>

\* one iteration of the loop of generate_hotspots; aggOk:
\* aggregate_hotspots_by_geometry finds its required columns
GenerateHotspots ==
    /\ pc = "generate_hotspots"
    /\ LET pq == Parquet(Targets[cursor][1])
           out == Table(Targets[cursor][2])
           Advance == IF cursor < Len(Targets)
                      THEN pc' = pc /\ cursor' = cursor + 1
                      ELSE pc' = "generate_combined_hotspots" /\ cursor' = 0
       IN  IF pq \notin disk
           THEN /\ skipped' = skipped \cup {Targets[cursor][2]}
                /\ Advance
                /\ Continue
                /\ UNCHANGED <<disk, written, content>>
           ELSE \E aggOk \in BOOLEAN :
                IF aggOk
                THEN /\ Store({out}, Put(content, out, HotspotContent(content[pq])))
                     /\ Advance
                     /\ Continue
                     /\ UNCHANGED skipped
                ELSE /\ Abort("ValueError")
                     /\ UNCHANGED <<disk, written, content>>
    /\ UNCHANGED <<run, start>>
    /\ UNCHANGED <<tableVars, stage, scoreVars, clusterVars, aggVars, labelVars>>

GenerateCombinedHotspots ==
    /\ pc = "generate_combined_hotspots"
    /\ IF Table(Targets[1][2]) \notin disk \/ Table(Targets[2][2]) \notin disk
       THEN /\ skipped' = skipped \cup {"hotspots_combined_geometry.csv"}
            /\ UNCHANGED <<disk, written, content>>
       ELSE /\ Store({CombinedCsv},
                     Put(content, CombinedCsv,
                         CombinedContent(content[Table(Targets[1][2])],
                                         content[Table(Targets[2][2])])))
            /\ UNCHANGED skipped
    /\ pc' = "generate_priority_scores"
    /\ Continue
    /\ UNCHANGED <<cursor, run, start>>
    /\ UNCHANGED <<tableVars, stage, scoreVars, clusterVars, aggVars, labelVars>>

\* outcome: compute_priority_scores returns, raises before its first
\* to_csv (a rank that cannot be cast to int), or raises in the second
\* to_csv (the file cannot be written)
GeneratePriorityScores ==
    /\ pc = "generate_priority_scores"
    /\ IF CombinedCsv \notin disk
       THEN /\ skipped' = skipped \cup {"hotspots_priority_global.csv"}
            /\ pc' = "run_hotspot_clustering"
            /\ Continue
            /\ UNCHANGED <<disk, written, content, cursor>>
       ELSE \E outcome \in {"returns", "raises_before_write", "raises_between_writes"} :
            LET global == Table("hotspots_priority_global.csv")
                by_country == Table("hotspots_priority_by_country.csv")
                c1 == Put(content, global,
                          PriorityContent("priority_global", content[CombinedCsv]))
                c2 == Put(c1, by_country,
                          PriorityContent("priority_by_country", content[CombinedCsv]))
            IN  CASE outcome = "returns" ->
                        /\ Store({global, by_country}, c2)
                        /\ pc' = "run_hotspot_clustering"
                        /\ Continue
                        /\ UNCHANGED <<cursor, skipped>>
                  [] outcome = "raises_before_write" ->
                        /\ Abort("ValueError")
                        /\ UNCHANGED <<disk, written, content>>
                  [] outcome = "raises_between_writes" ->
                        /\ Store({global}, c1)
                        /\ Abort("OSError")
    /\ UNCHANGED <<run, start>>
    /\ UNCHANGED <<tableVars, stage, scoreVars, clusterVars, aggVars, labelVars>>

\* outcome: cluster_hotspots returns, raises before its first to_csv (see
\* ClusterRaises), or raises in the second to_csv
RunHotspotClustering ==
    /\ pc = "run_hotspot_clustering"
    /\ IF CombinedCsv \notin disk
       THEN /\ skipped' = skipped \cup {"hotspots_clustered.csv"}
            /\ pc' = "done"
            /\ Continue
            /\ UNCHANGED <<disk, written, content, cursor>>
       ELSE \E outcome \in {"returns", "raises_before_write", "raises_between_writes"} :
            LET clustered == Table("hotspots_clustered.csv")
                summary == Table("hotspots_cluster_summary.csv")
                c1 == Put(content, clustered,
                          ClusterContent("clustered", content[CombinedCsv]))
                c2 == Put(c1, summary,
                          ClusterContent("cluster_summary", content[CombinedCsv]))
            IN  CASE outcome = "returns" ->
                        /\ Store({clustered, summary}, c2)
                        /\ pc' = "done"
                        /\ Continue
                        /\ UNCHANGED <<cursor, skipped>>
                  [] outcome = "raises_before_write" ->
                        /\ Abort("ValueError")
                        /\ UNCHANGED <<disk, written, content>>
                  [] outcome = "raises_between_writes" ->
                        /\ Store({clustered}, c1)
                        /\ Abort("OSError")
    /\ UNCHANGED <<run, start>>
    /\ UNCHANGED <<tableVars, stage, scoreVars, clusterVars, aggVars, labelVars>>

\* main() is run a second time after a run that completed, the raw files
\* being as they were
Rerun ==
    /\ pc = "done"
    /\ run = 1
    /\ run' = 2
    /\ start' = content
    /\ pc' = "process_file"
    /\ cursor' = 1
    /\ written' = {}
    /\ skipped' = {}
    /\ UNCHANGED <<disk, content, error, failed>>
    /\ UNCHANGED <<tableVars, stage, scoreVars, clusterVars, aggVars, labelVars>>

\* the files whose presence main() tests, in any combination left by
\* earlier runs
InitMain ==
    /\ disk \in SUBSET ({RawCsv(Files[i]) : i \in 1..Len(Files)}
                        \cup {Parquet(Files[i]) : i \in 1..Len(Files)}
                        \cup {Table(Targets[1][2]), Table(Targets[2][2]), CombinedCsv})
    /\ content = [f \in disk |-> IF f[1] = "data/raw" THEN RawContent ELSE EarlierContent]
    /\ start = content
    /\ run = 1
    /\ written = {}
    /\ pc = "process_file"
    /\ cursor = 1
    /\ skipped = {}
    /\ error = "none"
    /\ failed = "none"
    /\ res_csv = <<>>
    /\ nonres_csv = <<>>
    /\ combined_csv = <<>>
    /\ stage = "main"
    /\ ScoreInit
    /\ ClusterInit
    /\ AggIdle
    /\ LabelIdle

NextMain ==
    \/ ProcessFile
    \/ GenerateHotspots
    \/ GenerateCombinedHotspots
    \/ GeneratePriorityScores
    \/ RunHotspotClustering
    \/ Rerun

SpecMain == InitMain /\ [][NextMain]_vars

----------------------------------------------------------------------------
(* Claims about main() (checked under SpecMain) *)

\* C7 as stated: whatever files exist when main() starts, no stage raises
\* because an input file is missing; the run is not aborted for that reason.
C7_MissingInputNeverAborts == error # "FileNotFoundError"

\* in a run of main() no stage prints a skip notice: process_file leaves
\* every Parquet in place or raises, so each later stage finds its input
MainNeverSkips == skipped = {}

\* the output tables named by the idempotence claim
Artifacts ==
    {Table(Targets[1][2]), Table(Targets[2][2]), CombinedCsv}
        \cup PriorityOutputs \cup ClusterOutputs

StageOutputs(exc) ==
    CASE pc = "process_file" ->
             IF exc = "FileNotFoundError" THEN {Parquet(Files[cursor])}
             ELSE {RankingCsv(Files[cursor])}
      [] pc = "generate_hotspots" -> {Table(Targets[cursor][2])}
      [] pc = "generate_combined_hotspots" -> {CombinedCsv}
      [] pc = "generate_priority_scores" -> PriorityOutputs
      [] pc = "run_hotspot_clustering" -> ClusterOutputs
      [] OTHER -> {}

\* C19 as stated: when a stage raises, none of its output files has been
\* written by it, and every file written before holds what it held.
C19_NoPartialOutput ==
    [][ (error = "none" /\ error' # "none") =>
            /\ StageOutputs(error') \cap (written' \ written) = {}
            /\ \A f \in DOMAIN content \ StageOutputs(error') :
                   f \in DOMAIN content' /\ content'[f] = content[f] ]_vars

\* the files process_file has been through in this run
ProcessedFiles ==
    IF pc = "process_file" \/ (pc = "aborted" /\ failed = "process_file")
    THEN 1..(cursor - 1)
    ELSE 1..Len(Files)

\* C20: for every file process_file has been through in a run, the
\* conversion to Parquet ran if and only if the Parquet file did not exist
\* when the run reached it; a Parquet file that existed holds what it held,
\* whatever the raw CSV holds now; the EDA table of the file was written.
C20_IngestGatedOnOutput ==
    \A i \in ProcessedFiles :
        LET f == Files[i]
        IN  /\ (Parquet(f) \in written) <=> (Parquet(f) \notin DOMAIN start)
            /\ Parquet(f) \in DOMAIN start => content[Parquet(f)] = start[Parquet(f)]
            /\ EdaCsv(f) \in written

\* a completed run that converted one file and skipped the conversion of
\* another whose Parquet does not come from the raw CSV now on disk
C20_Witness ==
    /\ pc = "done"
    /\ \E i \in 1..Len(Files) : Parquet(Files[i]) \in written
    /\ \E i \in 1..Len(Files) :
         /\ Parquet(Files[i]) \notin written
         /\ RawCsv(Files[i]) \in disk
         /\ content[Parquet(Files[i])] # ConvertContent(content[RawCsv(Files[i])])
         /\ EdaCsv(Files[i]) \in written

====
